---- MODULE Spec2Model ----
(***************************************************************************)
(* A model of version_mcp/server.py: the four registry lookups             *)
(* (lookup_pypi, lookup_npm, lookup_crates, lookup_go) and the call_tool   *)
(* handler that dispatches to them and renders the result as text.         *)
(*                                                                         *)
(* Encoding of Python values:                                              *)
(*   str            a sequence of atoms (TLA+ strings); "" is <<>>         *)
(*   None           the value None below, different from every str         *)
(*   list           a sequence                                             *)
(*   dict           a function whose DOMAIN is the set of keys; a dict     *)
(*                  whose iteration order matters (releases, versions,     *)
(*                  dist-tags) is a sequence of [key, value] records       *)
(*   upload_time    a natural number; the order of the naturals stands for *)
(*                  the lexical order of the strings and 0 is ""           *)
(***************************************************************************)
EXTENDS Integers, Sequences, FiniteSets, TLC

VARIABLES
    pc,          \* position of the handler: idle, await1, await2, returned
    name,        \* tool name of the invocation in progress
    arguments,   \* its arguments mapping
    client,      \* the httpx.AsyncClient of the lookup in progress (0: none)
    openClients, \* clients whose `async with` scope has not been left
    clientSeq,   \* number of clients constructed so far
    owner,       \* client id -> the invocation that constructed it
    requests,    \* GETs issued by the invocation in progress, in order
    data,        \* lookup_go: the parsed @latest body
    result,      \* outcome of the lookup (or of the dispatch)
    response,    \* the list call_tool returned
    escaped,     \* the exception that left call_tool (NoExc: none)
    calls        \* number of invocations started

vars == <<pc, name, arguments, client, openClients, clientSeq, owner,
          requests, data, result, response, escaped, calls>>

----------------------------------------------------------------------------
(* Bounds of the model *)

MaxCalls == 2
MaxTextLen == 5
MaxExhaustive == 4
MaxVersions == 12

(* Program constants *)

RecentCap == 10
HTTP_OK == 200
HTTP_NOT_FOUND == 404

----------------------------------------------------------------------------
(* Python values *)

None == <<"<NoneType>">>
S(a) == <<a>>
NoExc == "none"

Get(d, k, default) == IF k \in DOMAIN d THEN d[k] ELSE default

\* truth value of an Optional[str]
Truthy(v) == v # None /\ v # <<>>

\* `a or b` on Optional[str]
OrElse(a, b) == IF Truthy(a) THEN a ELSE b

\* str(v) as an f-string renders it
Fmt(v) == IF v = None THEN S("None") ELSE v

Min(a, b) == IF a < b THEN a ELSE b

\* s[:n]
FirstN(s, n) == SubSeq(s, 1, Min(n, Len(s)))

\* s[-n:]
LastN(s, n) == SubSeq(s, Len(s) - Min(n, Len(s)) + 1, Len(s))

\* s[::-1]
Reverse(s) == [i \in 1..Len(s) |-> s[Len(s) + 1 - i]]

----------------------------------------------------------------------------
(* Outcomes of a lookup: a returned dict, a raised exception, or (lookup_go *)
(* after @latest) the parsed data with which the lookup goes on.           *)

Ret(v) == [kind |-> "return", value |-> v]
Raise(e) == [kind |-> "raise", exc |-> e]
Cont(d) == [kind |-> "continue", data |-> d]

\* httpx.Response.is_success, which raise_for_status tests
is_success(status_code) == status_code >= 200 /\ status_code <= 299

\* A line of text: a fixed part and the value formatted into it.
Line(label, value) == [label |-> label, value |-> value]

----------------------------------------------------------------------------
(* lookup_pypi *)

get_upload_time(release) ==
    IF Len(release.files) > 0 THEN release.files[1].upload_time ELSE 0

\* insertion of x behind every element whose key is not smaller: the
\* place a stable descending sort gives an element that comes later
RECURSIVE InsertDescending(_, _)
InsertDescending(x, s) ==
    IF s = <<>> THEN <<x>>
    ELSE IF get_upload_time(s[1]) >= get_upload_time(x)
         THEN <<s[1]>> \o InsertDescending(x, Tail(s))
         ELSE <<x>> \o s

\* sorted(releases, key=get_upload_time, reverse=True)
RECURSIVE releases_sorted(_)
releases_sorted(releases) ==
    IF releases = <<>> THEN <<>>
    ELSE InsertDescending(releases[Len(releases)],
                          releases_sorted(SubSeq(releases, 1, Len(releases) - 1)))

Keys(items) == [i \in 1..Len(items) |-> items[i].key]

\* the reverse flag of the sort left out: oldest first
pypi_recent_versions_ascending(releases) ==
    FirstN(Keys(Reverse(releases_sorted(releases))), RecentCap)

\* lines 29 and 35
pypi_recent_versions(releases) == FirstN(Keys(releases_sorted(releases)), RecentCap)

\* lines 21-38: from the body of a success response to the result
pypi_result(body) ==
    IF body.kind = "notjson" THEN Raise("JSONDecodeError")
    ELSE IF body.kind # "object" THEN Raise("TypeError")
    ELSE LET d == body.data IN
         IF "info" \notin DOMAIN d \/ "releases" \notin DOMAIN d
         THEN Raise("KeyError")
         ELSE LET info == d["info"] IN
              IF "name" \notin DOMAIN info \/ "version" \notin DOMAIN info
              THEN Raise("KeyError")
              ELSE Ret([name |-> info["name"],
                        latest_version |-> info["version"],
                        summary |-> Get(info, "summary", <<>>),
                        recent_versions |-> pypi_recent_versions(d["releases"]),
                        homepage |-> OrElse(Get(info, "home_page", None),
                                            Get(info, "project_url", None)),
                        requires_python |-> Get(info, "requires_python", None)])

\* lines 13-20, then pypi_result
lookup_pypi(package_name, resp) ==
    IF resp.failed THEN Raise("ConnectError")
    ELSE IF resp.status_code = HTTP_NOT_FOUND
    THEN Ret("error" :> <<Line("Package '{}' not found on PyPI", package_name)>>)
    ELSE IF ~is_success(resp.status_code) THEN Raise("HTTPStatusError")
    ELSE pypi_result(resp.body)

----------------------------------------------------------------------------
(* lookup_npm *)

npm_recent_versions(versions) == Reverse(LastN(versions, RecentCap))

\* lines 51-63: from the body of a success response to the result
npm_result(body) ==
    IF body.kind = "notjson" THEN Raise("JSONDecodeError")
    ELSE IF body.kind # "object" THEN Raise("AttributeError")
    ELSE LET d == body.data
             dist_tags == Get(d, "dist-tags", <<>>)
             versions == Keys(Get(d, "versions", <<>>))
             latest == LET hit == {i \in 1..Len(dist_tags) : dist_tags[i].key = S("latest")}
                       IN IF hit = {} THEN None
                          ELSE dist_tags[CHOOSE i \in hit : TRUE].value
         IN IF "name" \notin DOMAIN d THEN Raise("KeyError")
            ELSE Ret([name |-> d["name"],
                      latest_version |-> latest,
                      description |-> Get(d, "description", <<>>),
                      dist_tags |-> dist_tags,
                      recent_versions |-> npm_recent_versions(versions),
                      homepage |-> Get(d, "homepage", None)])

\* the 404 test left out: a 404 reaches raise_for_status
lookup_npm_404_raises(package_name, resp) ==
    IF resp.failed THEN Raise("ConnectError")
    ELSE IF ~is_success(resp.status_code) THEN Raise("HTTPStatusError")
    ELSE npm_result(resp.body)

\* lines 43-50, then npm_result
lookup_npm(package_name, resp) ==
    IF resp.failed THEN Raise("ConnectError")
    ELSE IF resp.status_code = HTTP_NOT_FOUND
    THEN Ret("error" :> <<Line("Package '{}' not found on npm", package_name)>>)
    ELSE IF ~is_success(resp.status_code) THEN Raise("HTTPStatusError")
    ELSE npm_result(resp.body)

----------------------------------------------------------------------------
(* lookup_crates *)

crates_recent_versions(versions) == FirstN(versions, RecentCap)

\* lines 77-89: from the body of a success response to the result
crates_result(body) ==
    IF body.kind = "notjson" THEN Raise("JSONDecodeError")
    ELSE IF body.kind # "object" THEN Raise("TypeError")
    ELSE LET d == body.data IN
         IF "crate" \notin DOMAIN d THEN Raise("KeyError")
         ELSE LET crate == d["crate"]
                  entries == Get(d, "versions", <<>>)
              IN IF \E i \in 1..Len(entries) : "num" \notin DOMAIN entries[i]
                 THEN Raise("KeyError")
                 ELSE IF "name" \notin DOMAIN crate THEN Raise("KeyError")
                 ELSE Ret([name |-> crate["name"],
                           latest_version |-> Get(crate, "max_version", None),
                           description |-> Get(crate, "description", <<>>),
                           recent_versions |->
                               crates_recent_versions(
                                   [i \in 1..Len(entries) |-> entries[i]["num"]]),
                           homepage |-> Get(crate, "homepage", None),
                           repository |-> Get(crate, "repository", None)])

\* lines 68-76, then crates_result
lookup_crates(package_name, resp) ==
    IF resp.failed THEN Raise("ConnectError")
    ELSE IF resp.status_code = HTTP_NOT_FOUND
    THEN Ret("error" :> <<Line("Package '{}' not found on crates.io", package_name)>>)
    ELSE IF ~is_success(resp.status_code) THEN Raise("HTTPStatusError")
    ELSE crates_result(resp.body)

----------------------------------------------------------------------------
(* lookup_go *)

NL == "\n"
IsSpace(a) == a \in {" ", NL, "\t", "\r"}

RECURSIVE lstrip(_)
lstrip(text) ==
    IF text # <<>> /\ IsSpace(text[1]) THEN lstrip(Tail(text)) ELSE text

RECURSIVE rstrip(_)
rstrip(text) ==
    IF text # <<>> /\ IsSpace(text[Len(text)])
    THEN rstrip(SubSeq(text, 1, Len(text) - 1))
    ELSE text

\* str.strip()
strip(text) == rstrip(lstrip(text))

\* str.split("\n"): one piece more than there are newlines, "" gives [""]
RECURSIVE split(_)
split(text) ==
    IF \A i \in 1..Len(text) : text[i] # NL THEN <<text>>
    ELSE LET i == CHOOSE j \in 1..Len(text) :
                      text[j] = NL /\ \A k \in 1..(j - 1) : text[k] # NL
         IN <<SubSeq(text, 1, i - 1)>> \o split(SubSeq(text, i + 1, Len(text)))

NonEmpty(v) == v # <<>>

\* the filter left out
keep_all(versions) == versions

\* line 112: [v for v in versions if v]
drop_empty(versions) == SelectSeq(versions, NonEmpty)

\* the status test left out: the body of any response is read as a list
go_versions_of_any_status(versions_response) ==
    drop_empty(split(strip(versions_response.text)))

\* lines 109-112: the version list taken from the @v/list response
go_versions(versions_response) ==
    IF versions_response.status_code = HTTP_OK
    THEN drop_empty(split(strip(versions_response.text)))
    ELSE <<>>

\* line 117
go_recent_versions(versions, latest) ==
    IF versions # <<>> THEN Reverse(LastN(versions, RecentCap)) ELSE <<latest>>

\* raise_for_status left out: a failing status other than 404 goes on
lookup_go_latest_unchecked(module_path, resp) ==
    IF resp.failed THEN Raise("ConnectError")
    ELSE IF resp.status_code = HTTP_NOT_FOUND
    THEN Ret("error" :> <<Line("Module '{}' not found on Go proxy", module_path)>>)
    ELSE IF resp.body.kind = "notjson" THEN Raise("JSONDecodeError")
    ELSE Cont(resp.body)

\* lines 95-102: from the @latest response to the second request
lookup_go_latest(module_path, resp) ==
    IF resp.failed THEN Raise("ConnectError")
    ELSE IF resp.status_code = HTTP_NOT_FOUND
    THEN Ret("error" :> <<Line("Module '{}' not found on Go proxy", module_path)>>)
    ELSE IF ~is_success(resp.status_code) THEN Raise("HTTPStatusError")
    ELSE IF resp.body.kind = "notjson" THEN Raise("JSONDecodeError")
    ELSE Cont(resp.body)

\* lines 105-119: from the @v/list response to the end of the lookup
lookup_go_list(module_path, latest, versions_response) ==
    IF versions_response.failed THEN Raise("ConnectError")
    ELSE IF latest.kind # "object" THEN Raise("AttributeError")
    ELSE LET versions == go_versions(versions_response) IN
         Ret([name |-> module_path,
              latest_version |-> Get(latest.data, "Version", None),
              recent_versions |->
                  go_recent_versions(versions, Get(latest.data, "Version", None)),
              timestamp |-> Get(latest.data, "Time", None)])

----------------------------------------------------------------------------
(* call_tool: dispatch, formatting, and the two except clauses *)

\* the name compared without regard to case
registry_of_any_case(tool) ==
    CASE tool = "lookup_pypi" -> "pypi"
      [] tool = "lookup_npm" -> "npm"
      [] tool = "lookup_crates" -> "crates"
      [] tool \in {"lookup_go", "LOOKUP_GO"} -> "go"
      [] OTHER -> "unknown"

\* lines 201-210: the lookup a tool name selects
registry_of(tool) ==
    CASE tool = "lookup_pypi" -> "pypi"
      [] tool = "lookup_npm" -> "npm"
      [] tool = "lookup_crates" -> "crates"
      [] tool = "lookup_go" -> "go"
      [] OTHER -> "unknown"

\* the key of the arguments mapping each branch subscripts
argument_key(tool) == IF tool = "lookup_go" THEN "module_path" ELSE "package_name"

\* truth value of result.get(k) for a str or None
Present(r, k) == k \in DOMAIN r /\ Truthy(r[k])

\* truth value of result.get(k) for a list or the dist_tags mapping
PresentItems(r, k) == k \in DOMAIN r /\ Len(r[k]) > 0

Cond(b, line) == IF b THEN <<line>> ELSE <<>>

\* lines 216-231
format_lines(r) ==
    <<Line("Package: ", Fmt(r["name"]))>>
    \o <<Line("Latest Version: ", Fmt(r["latest_version"]))>>
    \o Cond(Present(r, "description") \/ Present(r, "summary"),
            Line("Description: ",
                 IF Present(r, "description") THEN r["description"]
                 ELSE Get(r, "summary", None)))
    \o Cond(PresentItems(r, "recent_versions"),
            Line("Recent Versions: ", Get(r, "recent_versions", <<>>)))
    \o Cond(PresentItems(r, "dist_tags"),
            Line("Dist Tags: ",
                 LET t == Get(r, "dist_tags", <<>>)
                 IN [i \in 1..Len(t) |-> <<t[i].key, "=", Fmt(t[i].value)>>]))
    \o Cond(Present(r, "requires_python"),
            Line("Requires Python: ", Get(r, "requires_python", None)))
    \o Cond(Present(r, "homepage"), Line("Homepage: ", Get(r, "homepage", None)))
    \o Cond(Present(r, "repository"), Line("Repository: ", Get(r, "repository", None)))

\* ', '.join(...) raises TypeError on an item that is not a str
join_raises(r) ==
    PresentItems(r, "recent_versions")
    /\ \E i \in 1..Len(r["recent_versions"]) : r["recent_versions"][i] = None

\* lines 213-231: the text of a result, or the exception formatting raises
format_result(r) ==
    IF "error" \in DOMAIN r THEN Ret(r["error"])
    ELSE IF join_raises(r) THEN Raise("TypeError")
    ELSE Ret(format_lines(r))

\* the classes of the exceptions the model raises
HTTPError == {"ConnectError", "HTTPStatusError"}
Exception == HTTPError \cup {"KeyError", "TypeError", "AttributeError", "JSONDecodeError"}

TextContent(text) == [type |-> "text", text |-> text]

\* only the first except clause: any other exception leaves call_tool
except_clauses_http_only(exc) ==
    IF exc \in HTTPError
    THEN [returned |-> <<TextContent(<<Line("HTTP error looking up package: ", S(exc))>>)>>,
          raised |-> NoExc]
    ELSE [returned |-> <<>>, raised |-> exc]

\* the clauses in the other order: `except Exception` takes every exception
except_clauses_generic_first(exc) ==
    IF exc \in Exception
    THEN [returned |-> <<TextContent(<<Line("Error looking up package: ", S(exc))>>)>>,
          raised |-> NoExc]
    ELSE [returned |-> <<>>, raised |-> exc]

\* lines 234-237: what call_tool does with an exception raised in its try
\* block: [returned: the list returned, raised: the exception let through]
except_clauses(exc) ==
    IF exc \in HTTPError
    THEN [returned |-> <<TextContent(<<Line("HTTP error looking up package: ", S(exc))>>)>>,
          raised |-> NoExc]
    ELSE IF exc \in Exception
    THEN [returned |-> <<TextContent(<<Line("Error looking up package: ", S(exc))>>)>>,
          raised |-> NoExc]
    ELSE [returned |-> <<>>, raised |-> exc]

\* lines 212-237 applied to the outcome of the dispatch
finish(outcome) ==
    IF outcome.kind = "raise" THEN except_clauses(outcome.exc)
    ELSE LET f == format_result(outcome.value) IN
         IF f.kind = "raise" THEN except_clauses(f.exc)
         ELSE [returned |-> <<TextContent(f.value)>>, raised |-> NoExc]

----------------------------------------------------------------------------
(* The inputs: tool names, arguments mappings and registry behaviours *)

ToolNames == {"lookup_pypi", "lookup_npm", "lookup_crates", "lookup_go",
              "unknown_tool", "LOOKUP_GO"}

Arguments == {<<>>,
              "package_name" :> S("flask"),
              ("package_name" :> S("flask")) @@ ("module_path" :> S("github.com/gin-gonic/gin"))}

Statuses == {200, 204, 404, 500}

\* a dict with key k bound to one of vals, or without the key
Opt(k, vals) == {<<>>} \cup {k :> v : v \in vals}

NotJson == [kind |-> "notjson"]
JsonArray == [kind |-> "array"]
JsonObject(d) == [kind |-> "object", data |-> d]

Version(i) == S(ToString(i))
Item(k, v) == [key |-> k, value |-> v]

\* --- PyPI ---
File(t) == [upload_time |-> t]
FileLists == <<(<<>>), <<File(1)>>, <<File(2), File(1)>>>>
Release(i, files) == [key |-> Version(i), files |-> files]

\* every list of at most MaxExhaustive releases
ExhaustiveReleases ==
    UNION {{[i \in 1..n |-> Release(i, FileLists[f[i]])] : f \in [1..n -> 1..3]}
           : n \in 0..MaxExhaustive}

\* longer lists, their upload times following an arithmetic pattern
PatternReleases ==
    {[i \in 1..n |-> Release(i, FileLists[((a * i + b) % 3) + 1])]
     : n \in 0..MaxVersions, a \in 0..2, b \in 0..2}

PypiInfos ==
    {n @@ v @@ s @@ h @@ p @@ r :
        n \in {"name" :> S("Flask")},
        v \in {"version" :> S("3.0.0"), "version" :> None},
        s \in Opt("summary", {<<>>, S("A framework")}),
        h \in Opt("home_page", {None, S("https://palletsprojects.com")}),
        p \in Opt("project_url", {S("https://pypi.org/project/Flask/")}),
        r \in Opt("requires_python", {S(">=3.8")})}

PypiInfo0 == ("name" :> S("Flask")) @@ ("version" :> S("3.0.0"))

PypiBodies ==
    {NotJson, JsonArray,
     JsonObject("releases" :> <<>>),
     JsonObject("info" :> PypiInfo0),
     JsonObject(("info" :> ("version" :> S("3.0.0"))) @@ ("releases" :> <<>>))}
    \cup {JsonObject(("info" :> i) @@ ("releases" :> r)) :
            i \in PypiInfos, r \in {<<>>, <<Release(1, <<File(1)>>)>>}}
    \cup {JsonObject(("info" :> PypiInfo0) @@ ("releases" :> r)) :
            r \in ExhaustiveReleases \cup PatternReleases}

\* --- npm ---
NpmVersions == {[i \in 1..n |-> Item(Version(i), <<>>)] : n \in 0..MaxVersions}

NpmDistTags ==
    {<<>>,
     <<Item(S("latest"), S("4.18.2"))>>,
     <<Item(S("next"), S("5.0.0-beta.1"))>>,
     <<Item(S("latest"), S("4.18.2")), Item(S("next"), S("5.0.0-beta.1"))>>}

NpmBodies ==
    {NotJson, JsonArray, JsonObject("description" :> S("no name"))}
    \cup {JsonObject(("name" :> S("express")) @@ d @@ t @@ v @@ h) :
            d \in Opt("description", {<<>>, S("Fast")}),
            t \in Opt("dist-tags", NpmDistTags),
            v \in Opt("versions", {[i \in 1..2 |-> Item(Version(i), <<>>)]}),
            h \in Opt("homepage", {None, S("http://expressjs.com/")})}
    \cup {JsonObject(("name" :> S("express")) @@ ("versions" :> v)) : v \in NpmVersions}

\* --- crates.io ---
CratesVersions == {[i \in 1..n |-> ("num" :> Version(i))] : n \in 0..MaxVersions}

CratesBodies ==
    {NotJson, JsonArray,
     JsonObject("versions" :> <<>>),
     JsonObject("crate" :> ("max_version" :> S("1.0.193"))),
     JsonObject(("crate" :> ("name" :> S("serde")))
                @@ ("versions" :> <<("num" :> Version(1)), ("yanked" :> S("no"))>>))}
    \cup {JsonObject(("crate" :> (("name" :> S("serde")) @@ m @@ d @@ h @@ r)) @@ v) :
            m \in Opt("max_version", {S("1.0.193")}),
            d \in Opt("description", {<<>>, None, S("A framework")}),
            h \in Opt("homepage", {None, S("https://serde.rs")}),
            r \in Opt("repository", {S("https://github.com/serde-rs/serde")}),
            v \in Opt("versions", {<<("num" :> Version(1))>>})}
    \cup {JsonObject(("crate" :> ("name" :> S("serde"))) @@ ("versions" :> v)) :
            v \in CratesVersions}

\* --- Go proxy ---
GoLatestBodies ==
    {NotJson, JsonArray,
     JsonObject(<<>>),
     JsonObject("Version" :> S("v1.9.1")),
     JsonObject(("Version" :> S("v1.9.1")) @@ ("Time" :> S("2023-06-01T00:00:00Z")))}

TextAtoms == {"a", " ", NL}

\* every body of at most MaxTextLen characters
FreeTexts == UNION {[1..n -> TextAtoms] : n \in 0..MaxTextLen}

\* the body the proxy sends for a list of n versions, oldest first:
\* one version per line, each line ended by a newline
RECURSIVE RenderList(_)
RenderList(n) == IF n = 0 THEN <<>> ELSE RenderList(n - 1) \o <<ToString(n), NL>>

ListTexts == {RenderList(n) : n \in 0..MaxVersions}
             \cup {rstrip(RenderList(n)) : n \in 0..MaxVersions}

\* the bodies that come with a status that is no success
ErrorBodies == {NotJson, JsonObject("message" :> S("Not Found"))}
ErrorTexts == {<<>>, <<"not", " ", "found">>}

\* what a registry can do with a request answered by one of `bodies`
Responses(bodies) ==
    {[failed |-> TRUE]}
    \cup {[failed |-> FALSE, status_code |-> s, body |-> b] :
            s \in {c \in Statuses : is_success(c)}, b \in bodies}
    \cup {[failed |-> FALSE, status_code |-> s, body |-> b] :
            s \in {c \in Statuses : ~is_success(c)}, b \in ErrorBodies}

PypiResponses == Responses(PypiBodies)
NpmResponses == Responses(NpmBodies)
CratesResponses == Responses(CratesBodies)
GoLatestResponses == Responses(GoLatestBodies)

\* what the registry of `reg` can do with the first request
FirstResponses(reg) ==
    CASE reg = "pypi" -> PypiResponses
      [] reg = "npm" -> NpmResponses
      [] reg = "crates" -> CratesResponses
      [] reg = "go" -> GoLatestResponses
      [] OTHER -> {}

\* what the Go proxy can do with the @v/list request
ListResponses ==
    {[failed |-> TRUE]}
    \cup {[failed |-> FALSE, status_code |-> HTTP_OK, text |-> t] :
            t \in FreeTexts \cup ListTexts}
    \cup {[failed |-> FALSE, status_code |-> s, text |-> t] :
            s \in Statuses \ {HTTP_OK}, t \in ErrorTexts}

----------------------------------------------------------------------------
(* The handler as a state machine. call_tool runs from its entry to the    *)
(* first `await client.get(...)`, from each response to the next await,   *)
(* and to its return; nothing else runs in between.                        *)

NoResult == [kind |-> "none"]
NoData == [kind |-> "none"]
Pending == [got |-> FALSE]

\* what the log keeps of a response: the transport failure or the status,
\* and the body when the lookup reads it (response.json() after a success
\* status, versions_response.text after a 200)
FirstReply(resp) ==
    IF resp.failed THEN [got |-> TRUE, failed |-> TRUE]
    ELSE IF is_success(resp.status_code)
    THEN [got |-> TRUE, failed |-> FALSE, status_code |-> resp.status_code,
          read |-> TRUE, body |-> resp.body]
    ELSE [got |-> TRUE, failed |-> FALSE, status_code |-> resp.status_code,
          read |-> FALSE]

ListReply(resp) ==
    IF resp.failed THEN [got |-> TRUE, failed |-> TRUE]
    ELSE IF resp.status_code = HTTP_OK
    THEN [got |-> TRUE, failed |-> FALSE, status_code |-> resp.status_code,
          read |-> TRUE, text |-> resp.text]
    ELSE [got |-> TRUE, failed |-> FALSE, status_code |-> resp.status_code,
          read |-> FALSE]

\* the GET each lookup starts with (lines 14, 44, 69, 95) and the second
\* GET of lookup_go (line 105)
Request(c, reg, ident, endpoint) ==
    [client |-> c, registry |-> reg, ident |-> ident, endpoint |-> endpoint,
     reply |-> Pending]

first_endpoint(reg) == IF reg = "go" THEN "@latest" ELSE "package"

\* httpx.AsyncClient(): every construction gives a new client
new_client(seq) == seq + 1

\* a client closed by hand before the return only: a raise leaves it open
scope_exit_on_return(open, c, outcome) ==
    IF outcome.kind = "return" THEN open \ {c} ELSE open

\* leaving the `async with` block, whatever the outcome of the body
scope_exit(open, c, outcome) == open \ {c}

\* the lookup from its first response on
lookup_first(reg, ident, resp) ==
    CASE reg = "pypi" -> lookup_pypi(ident, resp)
      [] reg = "npm" -> lookup_npm(ident, resp)
      [] reg = "crates" -> lookup_crates(ident, resp)
      [] reg = "go" -> lookup_go_latest(ident, resp)

Init ==
    /\ pc = "idle"
    /\ name = ""
    /\ arguments = <<>>
    /\ client = 0
    /\ openClients = {}
    /\ clientSeq = 0
    /\ owner = {}
    /\ requests = <<>>
    /\ data = NoData
    /\ result = NoResult
    /\ response = <<>>
    /\ escaped = NoExc
    /\ calls = 0

\* call_tool ends: `outcome` is what the dispatch produced
Return(outcome) ==
    LET fin == finish(outcome) IN
    /\ result' = outcome
    /\ response' = fin.returned
    /\ escaped' = fin.raised
    /\ pc' = "returned"

\* call_tool(name, arguments) up to the first await, or to its return when
\* no lookup is entered
CallTool(n, a) ==
    /\ pc = "idle"
    /\ calls < MaxCalls
    /\ name' = n
    /\ arguments' = a
    /\ calls' = calls + 1
    /\ data' = NoData
    /\ LET reg == registry_of(n) IN
       IF reg = "unknown"
       THEN /\ Return(Ret("error" :> <<Line("Unknown tool: ", S(n))>>))
            /\ UNCHANGED <<client, openClients, clientSeq, owner, requests>>
       ELSE IF argument_key(n) \notin DOMAIN a
       THEN /\ Return(Raise("KeyError"))
            /\ UNCHANGED <<client, openClients, clientSeq, owner, requests>>
       ELSE LET c == new_client(clientSeq) IN
            /\ client' = c
            /\ clientSeq' = clientSeq + 1
            /\ openClients' = openClients \cup {c}
            /\ owner' = owner \cup {<<c, calls + 1>>}
            /\ requests' = <<Request(c, reg, a[argument_key(n)], first_endpoint(reg))>>
            /\ pc' = "await1"
            /\ UNCHANGED <<result, response, escaped>>

\* the first response arrives: the lookup runs to its end, or (lookup_go)
\* to its second request
FirstResponse ==
    /\ pc = "await1"
    /\ \E resp \in FirstResponses(registry_of(name)) :
       LET reg == registry_of(name)
           ident == arguments[argument_key(name)]
           out == lookup_first(reg, ident, resp)
           answered == [requests EXCEPT ![1].reply = FirstReply(resp)]
       IN IF out.kind = "continue"
          THEN /\ data' = out.data
               /\ requests' = answered \o <<Request(client, reg, ident, "@v/list")>>
               /\ pc' = "await2"
               /\ UNCHANGED <<openClients, result, response, escaped>>
          ELSE /\ requests' = answered
               /\ openClients' = scope_exit(openClients, client, out)
               /\ Return(out)
               /\ UNCHANGED data
    /\ UNCHANGED <<name, arguments, client, clientSeq, owner, calls>>

\* the @v/list response arrives: lookup_go runs to its end
ListResponse ==
    /\ pc = "await2"
    /\ \E resp \in ListResponses :
       LET out == lookup_go_list(arguments[argument_key(name)], data, resp) IN
       /\ requests' = [requests EXCEPT ![2].reply = ListReply(resp)]
       /\ openClients' = scope_exit(openClients, client, out)
       /\ Return(out)
    /\ UNCHANGED <<name, arguments, client, clientSeq, owner, data, calls>>

\* the host takes the reply; the server is ready for the next tool call
Accept ==
    /\ pc = "returned"
    /\ pc' = "idle"
    /\ name' = ""
    /\ arguments' = <<>>
    /\ client' = 0
    /\ requests' = <<>>
    /\ data' = NoData
    /\ result' = NoResult
    /\ response' = <<>>
    /\ escaped' = NoExc
    /\ UNCHANGED <<openClients, clientSeq, owner, calls>>

Next ==
    \/ \E n \in ToolNames, a \in Arguments : CallTool(n, a)
    \/ FirstResponse
    \/ ListResponse
    \/ Accept

Spec == Init /\ [][Next]_vars

----------------------------------------------------------------------------
(* Vocabulary of the properties *)

KnownTools == {"lookup_pypi", "lookup_npm", "lookup_crates", "lookup_go"}

Returned == pc = "returned"

\* the invocation entered a lookup
InLookup == requests # <<>>

FirstGot == InLookup /\ requests[1].reply.got
FirstFailed == FirstGot /\ requests[1].reply.failed
FirstStatus(codes) ==
    FirstGot /\ ~requests[1].reply.failed /\ requests[1].reply.status_code \in codes
ListGot == Len(requests) = 2 /\ requests[2].reply.got
ListFailed == ListGot /\ requests[2].reply.failed
ListStatus(codes) ==
    ListGot /\ ~requests[2].reply.failed /\ requests[2].reply.status_code \in codes

SuccessCodes == {c \in Statuses : c >= 200 /\ c < 300}
OtherFailingCodes == Statuses \ (SuccessCodes \cup {404})

\* the lookup returned a dict / raised
LookupReturned == Returned /\ InLookup /\ result.kind = "return"
LookupRaised == Returned /\ InLookup /\ result.kind = "raise"
IsErrorResult(r) == DOMAIN r = {"error"}
IsPackageResult(r) == "name" \in DOMAIN r /\ "error" \notin DOMAIN r
LookupSucceeded == LookupReturned /\ IsPackageResult(result.value)

Ident == arguments[argument_key(name)]

\* the not-found sentence of each registry
NotFoundText(tool, ident) ==
    CASE tool = "lookup_pypi" -> <<Line("Package '{}' not found on PyPI", ident)>>
      [] tool = "lookup_npm" -> <<Line("Package '{}' not found on npm", ident)>>
      [] tool = "lookup_crates" -> <<Line("Package '{}' not found on crates.io", ident)>>
      [] tool = "lookup_go" -> <<Line("Module '{}' not found on Go proxy", ident)>>

\* the text of the one block returned, and the fixed part of its first line
Text == response[1].text
Prefix == Text[1].label

----------------------------------------------------------------------------
\* C1: whatever the tool name, the arguments mapping and the behaviour of
\* the registry, call_tool lets no exception through and returns a list of
\* exactly one content block, of type "text".
CallToolReturnsOneTextBlock ==
    /\ escaped = NoExc
    /\ Returned => Len(response) = 1 /\ response[1].type = "text"

\* a malformed body has been answered with one text block
MalformedBodyAnswered ==
    /\ Returned
    /\ FirstStatus({200})
    /\ requests[1].reply.body.kind = "notjson"
    /\ Len(response) = 1

\* C2: a tool name that is none of the four returns "Unknown tool: {name}"
\* and no HTTP request is issued at any point of that invocation, whatever
\* the arguments mapping holds.
UnknownToolIssuesNoRequest ==
    (pc # "idle" /\ name \notin KnownTools) =>
        /\ requests = <<>>
        /\ openClients = {}
        /\ Returned
        /\ Len(response) = 1
        /\ Text = <<Line("Unknown tool: ", S(name))>>

\* a near miss of a tool name was called with the key its lookup would read
UnknownToolCalled ==
    /\ Returned
    /\ name = "LOOKUP_GO"
    /\ "module_path" \in DOMAIN arguments

\* C3: what a lookup returns is an ErrorResult (an `error` field only) or a
\* PackageQueryResult (a `name` field, no `error` field); a 404 to the first
\* request gives the ErrorResult with the registry's not-found sentence
\* naming the requested identifier; a successful response gives no result
\* with an `error` field.
LookupResultIsErrorOrPackage ==
    /\ LookupReturned =>
          /\ IsErrorResult(result.value) \/ IsPackageResult(result.value)
          /\ ~(IsErrorResult(result.value) /\ IsPackageResult(result.value))
    /\ (Returned /\ FirstStatus({404})) =>
          /\ result.kind = "return"
          /\ IsErrorResult(result.value)
          /\ result.value["error"] = NotFoundText(name, Ident)
    /\ (LookupReturned /\ FirstStatus(SuccessCodes)) => "error" \notin DOMAIN result.value

\* a registry answered 404 and the lookup returned
NotFoundReturned == LookupReturned /\ FirstStatus({404}) /\ name = "lookup_crates"

----------------------------------------------------------------------------
(* recent_versions against what the registry sent *)

RecentVersions == result.value["recent_versions"]
FirstData == requests[1].reply.body.data

\* the last 10 of a list that is oldest first, newest first
NewestFirst(v) ==
    [i \in 1..(IF Len(v) < 10 THEN Len(v) ELSE 10) |-> v[Len(v) + 1 - i]]

\* the first 10 of a list
Leading(v) == [i \in 1..(IF Len(v) < 10 THEN Len(v) ELSE 10) |-> v[i]]

\* PyPI: rv holds 10 of the release keys (all of them when there are fewer),
\* none twice, upload time of the first file never increasing, no release
\* left out that was uploaded later than one taken, releases without files
\* behind those with files
PypiNewestFirst(rel, rv) ==
    LET n == Len(rel)
        T(k) == LET j == CHOOSE j \in 1..n : rel[j].key = k
                IN IF Len(rel[j].files) = 0 THEN 0 ELSE rel[j].files[1].upload_time
        Taken == {rv[i] : i \in 1..Len(rv)}
    IN /\ Len(rv) = (IF n < 10 THEN n ELSE 10)
       /\ \A i \in 1..Len(rv) : \E j \in 1..n : rel[j].key = rv[i]
       /\ \A i, j \in 1..Len(rv) : i < j => rv[i] # rv[j] /\ T(rv[i]) >= T(rv[j])
       /\ \A j \in 1..n : rel[j].key \notin Taken =>
              \A i \in 1..Len(rv) : T(rv[i]) >= T(rel[j].key)
       /\ \A i, j \in 1..Len(rv) : (i < j /\ T(rv[i]) = 0) => T(rv[j]) = 0

NpmVersionKeys ==
    LET v == Get(FirstData, "versions", <<>>) IN [i \in 1..Len(v) |-> v[i].key]

CratesNums ==
    LET v == Get(FirstData, "versions", <<>>) IN [i \in 1..Len(v) |-> v[i]["num"]]

\* the @v/list body is a list: one version (one atom) or nothing per line
ListText == requests[2].reply.text
IsList(text) ==
    /\ \A i \in 1..Len(text) : text[i] # " "
    /\ \A i \in 1..(Len(text) - 1) : text[i] = NL \/ text[i + 1] = NL
IsVersionAtom(a) == a # NL
\* the versions of such a list, in the order the proxy sent them
ProxyList(text) ==
    LET atoms == SelectSeq(text, IsVersionAtom) IN [i \in 1..Len(atoms) |-> <<atoms[i]>>]

GoLatest == Get(FirstData, "Version", None)

RecentRuleOfOthers ==
    /\ LookupSucceeded => Len(RecentVersions) <= 10
    /\ (LookupSucceeded /\ name = "lookup_pypi") =>
          PypiNewestFirst(FirstData["releases"], RecentVersions)
    /\ (LookupSucceeded /\ name = "lookup_npm") =>
          RecentVersions = NewestFirst(NpmVersionKeys)
    /\ (LookupSucceeded /\ name = "lookup_crates") =>
          RecentVersions = Leading(CratesNums)

\* C4 as stated: at most 10 entries, newest first by the registry's rule;
\* for Go the last 10 entries of the list the proxy sent, reversed.
RecentVersionsRuleAsStated ==
    /\ RecentRuleOfOthers
    /\ (LookupSucceeded /\ name = "lookup_go" /\ ListStatus({200}) /\ IsList(ListText)) =>
          RecentVersions = NewestFirst(ProxyList(ListText))

\* C4 (amended): at most 10 entries, newest first by the registry's rule;
\* for Go the last 10 entries of the list the proxy sent, reversed, when
\* that list has an entry, and otherwise (an empty list, or no 200 to the
\* list request) the one-element list holding the @latest version.
RecentVersionsRule ==
    /\ RecentRuleOfOthers
    /\ (LookupSucceeded /\ name = "lookup_go" /\ ListStatus({200}) /\ IsList(ListText)) =>
          RecentVersions = (IF ProxyList(ListText) # <<>>
                            THEN NewestFirst(ProxyList(ListText))
                            ELSE <<GoLatest>>)
    /\ (LookupSucceeded /\ name = "lookup_go" /\ ~ListStatus({200})) =>
          RecentVersions = <<GoLatest>>

\* the Go proxy sent more than 10 versions and 10 were kept
RecentCapReached ==
    /\ LookupSucceeded
    /\ name = "lookup_go"
    /\ ListStatus({200})
    /\ IsList(ListText)
    /\ Len(ProxyList(ListText)) > 10
    /\ Len(RecentVersions) = 10

----------------------------------------------------------------------------
\* C5: a lookup that fails with a failing status other than 404 or with a
\* transport failure is answered "HTTP error looking up package: ..."; any
\* other failure of the dispatch or the formatting (a missing argument key,
\* a malformed body) is answered "Error looking up package: ..."; a 404 of
\* the registry is answered with neither prefix but with the registry's
\* not-found sentence.
FailuresAreReportedByClass ==
    /\ (Returned /\ (FirstStatus(OtherFailingCodes) \/ FirstFailed \/ ListFailed)) =>
          Prefix = "HTTP error looking up package: "
    /\ (Returned /\ name \in KnownTools /\ argument_key(name) \notin DOMAIN arguments) =>
          Prefix = "Error looking up package: "
    /\ (Returned /\ FirstStatus(SuccessCodes) /\ requests[1].reply.body.kind = "notjson") =>
          Prefix = "Error looking up package: "
    /\ (LookupRaised /\ ~(FirstStatus(OtherFailingCodes) \/ FirstFailed \/ ListFailed)) =>
          Prefix = "Error looking up package: "
    /\ (LookupSucceeded /\ \E i \in 1..Len(RecentVersions) : RecentVersions[i] = None) =>
          Prefix = "Error looking up package: "
    /\ (Returned /\ FirstStatus({404})) =>
          /\ Prefix \notin {"HTTP error looking up package: ", "Error looking up package: "}
          /\ Text = NotFoundText(name, Ident)

\* a registry answered 500 and call_tool returned
ServerErrorAnswered == Returned /\ FirstStatus({500}) /\ name = "lookup_npm"

----------------------------------------------------------------------------
(* lookup_go: the two requests *)

GoContinued == name = "lookup_go" /\ Len(requests) = 2
LatestSucceeded ==
    GoContinued /\ FirstStatus(SuccessCodes) /\ requests[1].reply.body.kind = "object"
GoTime == Get(FirstData, "Time", None)

CarriesLatest(r) ==
    /\ IsPackageResult(r)
    /\ r["latest_version"] = GoLatest
    /\ r["timestamp"] = GoTime
    /\ r["recent_versions"] = <<GoLatest>>

\* C6 as stated: once @latest has succeeded, a failure of the @v/list
\* request (no response, or a status other than 200) does not fail the
\* lookup: the list counts as empty and the result carries the latest
\* version and timestamp of the first request.
ListFailureIsNonFatalAsStated ==
    (Returned /\ LatestSucceeded /\ (ListFailed \/ ListStatus(Statuses \ {200}))) =>
        result.kind = "return" /\ CarriesLatest(result.value)

\* C6 (amended): once @latest has succeeded, a status other than 200 to the
\* @v/list request does not fail the lookup: the list counts as empty and
\* the result carries the latest version and timestamp of the first
\* request; a transport failure of the @v/list request fails the lookup.
ListStatusFailureIsNonFatal ==
    /\ (Returned /\ LatestSucceeded /\ ListStatus(Statuses \ {200})) =>
          result.kind = "return" /\ CarriesLatest(result.value)
    /\ (Returned /\ LatestSucceeded /\ ListFailed) => result.kind = "raise"

\* the list request was answered 500 after a successful @latest
ListRequestAnswered500 ==
    /\ Returned
    /\ LatestSucceeded
    /\ ListStatus({500})
    /\ GoLatest # None
    /\ requests[2].reply.read = FALSE

\* C7 as stated: a successful lookup_go never has empty recent_versions:
\* when the parsed list is empty (no 200 to the list request, or a body of
\* blank lines only) it is the one-element list holding the latest version,
\* and no blank line of the body (a line without a visible character) is an
\* entry.
GoRecentVersionsHoldNoBlankLine ==
    (LookupSucceeded /\ name = "lookup_go") =>
        /\ RecentVersions # <<>>
        /\ (~ListStatus({200}) \/ \A i \in 1..Len(ListText) : IsSpace(ListText[i])) =>
              RecentVersions = <<GoLatest>>
        /\ \A i \in 1..Len(RecentVersions) :
              \E k \in 1..Len(RecentVersions[i]) : ~IsSpace(RecentVersions[i][k])

\* C7 (amended): a successful lookup_go never has empty recent_versions:
\* when the parsed list is empty (no 200 to the list request, or a body of
\* blank lines only) it is the one-element list holding the latest version,
\* and no empty line of the body is an entry (a line of whitespace only
\* between two versions is kept).
GoRecentVersionsNeverEmpty ==
    (LookupSucceeded /\ name = "lookup_go") =>
        /\ RecentVersions # <<>>
        /\ (~ListStatus({200}) \/ \A i \in 1..Len(ListText) : IsSpace(ListText[i])) =>
              RecentVersions = <<GoLatest>>
        /\ \A i \in 1..Len(RecentVersions) : RecentVersions[i] # <<>>
        /\ (ListStatus({200}) /\ Len(ListText) < 20
              /\ \E j \in 2..(Len(ListText) - 1) :
                    /\ ListText[j - 1] = NL /\ ListText[j] = " " /\ ListText[j + 1] = NL
                    /\ \E k \in 1..(j - 1) : ~IsSpace(ListText[k])
                    /\ \E k \in (j + 1)..Len(ListText) : ~IsSpace(ListText[k])) =>
              \E i \in 1..Len(RecentVersions) : RecentVersions[i] = <<" ">>

\* the list body held a blank line between two versions
BlankLineInList ==
    /\ LookupSucceeded
    /\ name = "lookup_go"
    /\ ListStatus({200})
    /\ \E i \in 1..(Len(ListText) - 1) : ListText[i] = NL /\ ListText[i + 1] = NL
    /\ Len(RecentVersions) = 2

----------------------------------------------------------------------------
(* formatting *)

Labels == {Text[i].label : i \in 1..Len(Text)}
Formatted == LookupSucceeded /\ Prefix = "Package: "
Absent(k) == k \notin DOMAIN result.value \/ result.value[k] = None

\* C8: in the text of a successful result an optional field that is absent
\* (latest_version, description/summary, recent_versions, dist_tags,
\* requires_python, homepage, repository) has no line and no placeholder
\* such as "None".
AbsentFieldsAreOmitted ==
    Formatted =>
        /\ Absent("latest_version") => "Latest Version: " \notin Labels
        /\ (Absent("description") /\ Absent("summary")) => "Description: " \notin Labels
        /\ "recent_versions" \notin DOMAIN result.value => "Recent Versions: " \notin Labels
        /\ "dist_tags" \notin DOMAIN result.value => "Dist Tags: " \notin Labels
        /\ Absent("requires_python") => "Requires Python: " \notin Labels
        /\ Absent("homepage") => "Homepage: " \notin Labels
        /\ Absent("repository") => "Repository: " \notin Labels
        /\ \A i \in 1..Len(Text) :
              Text[i].label \notin {"Recent Versions: ", "Dist Tags: "} =>
                  Text[i].value # S("None")

----------------------------------------------------------------------------
\* C9: every lookup opens a client scope of its own and has left it when
\* the invocation ends, whether the lookup returned a result, returned the
\* not-found error or raised; between tool calls no scope is open and no
\* client serves two invocations.
ClientScopeIsClosed ==
    /\ pc \in {"idle", "returned"} => openClients = {}
    /\ pc \in {"await1", "await2"} => openClients = {client}
    /\ InLookup => <<client, calls>> \in owner
    /\ \A i \in 1..Len(requests) : requests[i].client = client
    /\ \A p, q \in owner : p[1] = q[1] => p[2] = q[2]

\* a second invocation raised inside its lookup
SecondLookupRaised == LookupRaised /\ calls = 2 /\ clientSeq = 2

\* C10: lookup_go issues at most two requests, one after the other: the
\* @v/list request only after @latest was answered with a success status;
\* after a 404 to @latest the not-found ErrorResult is returned and after
\* another failing status the lookup fails, both without a @v/list request.
GoRequestsInSequence ==
    name = "lookup_go" =>
        /\ Len(requests) <= 2
        /\ InLookup => requests[1].endpoint = "@latest"
        /\ Len(requests) = 2 =>
              /\ requests[2].endpoint = "@v/list"
              /\ FirstStatus(SuccessCodes)
        /\ FirstStatus({404}) =>
              /\ Len(requests) = 1
              /\ Returned
              /\ result = Ret("error" :> NotFoundText(name, Ident))
        /\ FirstStatus(OtherFailingCodes) =>
              /\ Len(requests) = 1
              /\ Returned
              /\ result.kind = "raise"
        /\ pc = "await1" => ~requests[1].reply.got
        /\ pc = "await2" => requests[1].reply.got /\ ~requests[2].reply.got

\* @latest was answered 500 and the lookup ended
GoLatestAnswered500 == Returned /\ name = "lookup_go" /\ FirstStatus({500})

====
